---------------------------- MODULE Spec2Model ----------------------------
(***************************************************************************)
(* State-machine model of src/main.jsx, the MFI credit grade calculator:   *)
(* the utilities clamp, computeWeighted, makeKey and gradeFromScore, and   *)
(* the App component's state (config, scores, bands, showSettings), its    *)
(* memoized values and its event handlers.                                 *)
(*                                                                         *)
(* Numbers.  The program computes in IEEE doubles; the model computes in   *)
(* exact integers of fixed units, and floating-point rounding error is not *)
(* modelled:                                                               *)
(*   - a weight w is the integer w * WeightDen;                            *)
(*   - total, dimSum are in units of 1 / (5 * WeightDen), so that the      *)
(*     contribution w * (s / 5) of the code is the integer weight * s;     *)
(*   - dimW, perDimDen are in weight units;                                *)
(*   - a percentage (totalPct, a band's min) is in hundredths, the two     *)
(*     decimals toFixed(2) keeps.                                          *)
(* The explanation text of an indicator is rendered only; it is left out.  *)
(***************************************************************************)
EXTENDS Integers, Sequences, FiniteSets, TLC

VARIABLES
  config,        \* useState(DEFAULT_CONFIG)               line 101
  scores,        \* useState({}): key -> rating            line 102
  bands,         \* useState([...]): sequence of bands     line 103
  showSettings,  \* useState(false)                        line 110
  total,         \* memoized computeWeighted(...).total    line 112
  perDim,        \* memoized computeWeighted(...).perDim
  perDimDen,     \* memoized computeWeighted(...).perDimDen
  totalPct,      \* memoized                               line 117
  finalGrade,    \* memoized                               line 118
  mounted,       \* FALSE once a render has thrown and React removed the tree
  alertMsg,      \* text of the alert() raised by the last handler, "" if none
  exported,      \* <<snapshot>> written by the last handler, <<>> if none
  lastOp,        \* the handler that ran last, with its inputs and outcome
  pc,            \* position of the direct calls of the utilities
  callPct,       \* gradeFromScore: argument pct
  callBands,     \* gradeFromScore: argument bands
  retLabel,      \* gradeFromScore: returned label
  callModel,     \* computeWeighted: argument model
  callScores,    \* computeWeighted: argument scores
  retAgg         \* computeWeighted: returned record

appVars == <<config, scores, bands, showSettings, total, perDim, perDimDen,
             totalPct, finalGrade, mounted, alertMsg, exported, lastOp>>
callVars == <<pc, callPct, callBands, retLabel, callModel, callScores, retAgg>>
vars == <<appVars, callVars>>

---------------------------------------------------------------------------
(* Units and bounds *)

WeightDen == 10^5            \* a weight of 1.0
PctDen == 10^2               \* one percent
MaxRating == 5               \* the upper end of a rating
MaxPct == 100 * PctDen       \* 100 percent

MaxRatedDims == 2            \* the user rates the first indicator of this many dimensions
MaxBands == 3                \* length of the band sequences handed to gradeFromScore
MaxScored == 2               \* size of the partial rating maps handed to computeWeighted

---------------------------------------------------------------------------
(* JavaScript values, as JSON.parse produces them.  Every value is a record *)
(* of the same shape; an object or array keeps its own enumerable           *)
(* properties, in order, in kv.                                             *)

JV(t, n, s, kv) == [t |-> t, n |-> n, s |-> s, kv |-> kv]
Undefined == JV("undefined", 0, "", <<>>)
Null == JV("null", 0, "", <<>>)
Num(x) == JV("num", x, "", <<>>)
Str(x) == JV("str", 0, x, <<>>)
KV(k, v) == [k |-> k, v |-> v]
Obj(kvs) == JV("obj", 0, "", kvs)
Arr(vals) == JV("arr", 0, "", [i \in 1..Len(vals) |-> KV(ToString(i - 1), vals[i])])

RECURSIVE find(_, _, _)
find(kv, key, i) ==
  IF i > Len(kv) THEN Undefined
  ELSE IF kv[i].k = key THEN kv[i].v
  ELSE find(kv, key, i + 1)

\* v.key for a value that is neither null nor undefined
Get(v, key) == IF v.t \in {"obj", "arr"} THEN find(v.kv, key, 1) ELSE Undefined

\* a property access on null or undefined throws a TypeError
Nullish(v) == v.t \in {"null", "undefined"}

\* !v is false
Truthy(v) ==
  CASE v.t \in {"null", "undefined"} -> FALSE
    [] v.t = "num" -> v.n # 0
    [] v.t = "str" -> v.s # ""
    [] OTHER -> TRUE

\* TLC cannot index a string; a string of one character is its own character
CharOf(s, i) == IF Len(s) = 1 THEN s ELSE "?"

\* Object.entries(v) for a v that is not nullish: own properties of an object
\* or array, the characters of a string, nothing for a number
ObjectEntries(v) ==
  CASE v.t \in {"obj", "arr"} -> v.kv
    [] v.t = "str" -> [i \in 1..Len(v.s) |-> KV(ToString(i - 1), Str(CharOf(v.s, i)))]
    [] OTHER -> <<>>

\* Number(item.weight || 0); the weights of the modelled documents are JSON
\* numbers or absent
WeightOf(item) ==
  LET w == Get(item, "weight") IN IF Truthy(w) /\ w.t = "num" THEN w.n ELSE 0

\* `${item.kpi}`
KpiText(item) ==
  LET k == Get(item, "kpi") IN
  CASE k.t = "str" -> k.s
    [] k.t = "null" -> "null"
    [] OTHER -> "undefined"

---------------------------------------------------------------------------
(* 2) UTILITIES *)

Max2(a, b) == IF a >= b THEN a ELSE b
Min2(a, b) == IF a <= b THEN a ELSE b

clampNone(v, min, max) == v

clamp(v, min, max) == Max2(min, Min2(max, v))

makeKey(dim, item) == dim \o "::" \o KpiText(item)

\* scores[key] ?? 0
ScoreAt(sc, key) == IF key \in DOMAIN sc THEN sc[key] ELSE 0

\* The accumulators of one dimension: dimSum and dimW (lines 67-68), and err
\* once a call has thrown
Thrown == [err |-> TRUE, sum |-> 0, w |-> 0]

\* lines 71-76 for one item: dimSum += w * (s / 5); dimW += w
addItem(acc, w, s) == [err |-> FALSE, sum |-> acc.sum + w * s, w |-> acc.w + w]

RECURSIVE forEachItem(_, _, _, _, _)
\* arr.forEach((item) => ...), from the i-th element on (lines 70-77);
\* item.kpi throws for a null item
forEachItem(dim, items, sc, i, acc) ==
  IF i > Len(items) THEN acc
  ELSE IF Nullish(items[i].v) THEN Thrown
  ELSE forEachItem(dim, items, sc, i + 1,
         addItem(acc, WeightOf(items[i].v),
                 clamp(ScoreAt(sc, makeKey(dim, items[i].v)), 0, MaxRating)))

RECURSIVE forEachSub(_, _, _, _, _)
\* Object.values(subs).forEach((arr) => ...), from the i-th value on (line 69);
\* a value that is no array has no forEach, and the call throws
forEachSub(dim, subs, sc, i, acc) ==
  IF i > Len(subs) \/ acc.err THEN acc
  ELSE IF subs[i].v.t # "arr" THEN Thrown
  ELSE forEachSub(dim, subs, sc, i + 1, forEachItem(dim, subs[i].v.kv, sc, 1, acc))

\* the body of Object.entries(model).forEach(([dim, subs]) => ...), lines
\* 67-80; Object.values(subs) throws for a null subs
dimOf(entry, sc) ==
  IF Nullish(entry.v) THEN Thrown
  ELSE forEachSub(entry.k, ObjectEntries(entry.v), sc, 1,
                  [err |-> FALSE, sum |-> 0, w |-> 0])

ThrownAgg == [err |-> TRUE, total |-> 0, perDim |-> <<>>, perDimDen |-> <<>>]

\* lines 76 and 79-80 for one dimension, d being what its loops accumulated
addDim(acc, dim, d) ==
  IF d.err THEN ThrownAgg
  ELSE [err |-> FALSE,
        total |-> acc.total + d.sum,
        perDim |-> (dim :> d.sum) @@ acc.perDim,
        perDimDen |-> (dim :> (IF d.w = 0 THEN WeightDen ELSE d.w)) @@ acc.perDimDen]

RECURSIVE forEachDim(_, _, _, _)
\* Object.entries(model).forEach(...), from the i-th entry on (line 66)
forEachDim(entries, sc, i, acc) ==
  IF i > Len(entries) \/ acc.err THEN acc
  ELSE forEachDim(entries, sc, i + 1, addDim(acc, entries[i].k, dimOf(entries[i], sc)))

\* The record returned (line 82), or err when the call throws;
\* Object.entries(model) throws for a null model
computeWeighted(model, sc) ==
  IF Nullish(model) THEN ThrownAgg
  ELSE forEachDim(ObjectEntries(model), sc, 1,
                  [err |-> FALSE, total |-> 0, perDim |-> <<>>, perDimDen |-> <<>>])

RECURSIVE scanBands(_, _, _)
\* for (const b of bands) { if (pct >= b.min) return b.label; }, then the fallback
scanBands(pct, bs, i) ==
  IF i > Len(bs) THEN (IF Len(bs) > 0 THEN bs[Len(bs)].label ELSE "N/A")
  ELSE IF pct >= bs[i].min THEN bs[i].label
  ELSE scanBands(pct, bs, i + 1)

gradeFromScoreStrict(pct, bs) ==
  IF \E i \in 1..Len(bs) : pct > bs[i].min
  THEN bs[CHOOSE i \in 1..Len(bs) :
            /\ pct > bs[i].min
            /\ \A j \in 1..(i - 1) : ~(pct > bs[j].min)].label
  ELSE IF Len(bs) > 0 THEN bs[Len(bs)].label ELSE "N/A"

gradeFromScoreNoFallback(pct, bs) ==
  IF \E i \in 1..Len(bs) : pct >= bs[i].min
  THEN bs[CHOOSE i \in 1..Len(bs) :
            /\ pct >= bs[i].min
            /\ \A j \in 1..(i - 1) : ~(pct >= bs[j].min)].label
  ELSE "N/A"

gradeFromScore(pct, bs) == scanBands(pct, bs, 1)

\* units of total in one hundredth of a percent
TotalPerPct == (5 * WeightDen) \div (100 * PctDen)

toFixed2Floor(t) == t \div TotalPerPct

\* Number((total * 100).toFixed(2)), in hundredths of a percent; toFixed rounds
\* to the nearest, a tie upward
toFixed2(t) == (2 * t + TotalPerPct) \div (2 * TotalPerPct)

totalPctOf(t) == clamp(toFixed2(t), 0, MaxPct)


\* useMemo(() => value, deps): the cached value while the dependencies are
\* unchanged.  React compares dependencies by identity and every setter call
\* of this program stores a fresh object; the model compares by value, which
\* recomputes less often and yields the same values, the computations being
\* pure.
useMemoNever(value, deps, prevDeps, cached) == cached

useMemo(value, deps, prevDeps, cached) ==
  IF deps = prevDeps THEN cached ELSE value

---------------------------------------------------------------------------
(* 1) DEFAULT MODEL CONFIG *)

Item(kpi, weight) == Obj(<<KV("kpi", Str(kpi)), KV("weight", Num(weight))>>)

DEFAULT_CONFIG ==
  Obj(<<
    KV("meta", Obj(<<KV("total_weight", Num(WeightDen))>>)),
    KV("model", Obj(<<
      KV("Financial Performance", Obj(<<
        KV("Credit Risk", Arr(<<Item("PAR > 30 Days", 5000),
                                Item("Write-off Ratio", 3000)>>)),
        KV("Market Position", Arr(<<Item("Client Outreach Growth", 2000),
                                    Item("Market Share", 3000)>>)),
        KV("Profitability & Sustainability", Arr(<<Item("RoA", 4000),
                                                   Item("RoE", 5000),
                                                   Item("OSS", 6000)>>))>>)),
      KV("Refinancing & Liquidity", Obj(<<
        KV("Reputation", Arr(<<Item("Credit Rating History", 3000)>>)),
        KV("Diversification", Arr(<<Item("Borrowing Source Mix", 3000)>>)),
        KV("Liquidity Management", Arr(<<Item("Liquidity Coverage Ratio", 4000)>>))>>)),
      KV("Governance & Management", Obj(<<
        KV("Board Effectiveness", Arr(<<Item("Board Diversity", 1000),
                                        Item("Meeting Frequency", 1000)>>)),
        KV("Management Experience", Arr(<<Item("Years in Microfinance", 2000),
                                          Item("Crisis Management", 1000)>>)),
        KV("Internal Controls", Arr(<<Item("Audit Compliance", 2000)>>))>>))>>))>>)

Band(label, min) == [label |-> label, min |-> min]

DEFAULT_BANDS ==
  << Band("A", 85 * PctDen), Band("B", 70 * PctDen), Band("C", 55 * PctDen),
     Band("D", 40 * PctDen), Band("E", 0) >>

---------------------------------------------------------------------------
(* The files a user may select in "Load Config JSON" *)

File(readable, wellFormed, json) ==
  [readable |-> readable, wellFormed |-> wellFormed, json |-> json]
JsonFile(v) == File(TRUE, TRUE, v)

\* two dimensions whose indicators share a key: "A" + "B::C" and "A::B" + "C"
ConfigColliding ==
  Obj(<<KV("model", Obj(<<
    KV("A", Obj(<<KV("s", Arr(<<Item("B::C", 50000)>>))>>)),
    KV("A::B", Obj(<<KV("s", Arr(<<Item("C", 25000)>>))>>))>>))>>)

\* a weight of five decimals and an indicator without a weight
ConfigFine ==
  Obj(<<KV("model", Obj(<<
    KV("P", Obj(<<KV("s1", Arr(<<Item("k1", 12346), Item("k2", 60000)>>)),
                  KV("s2", Arr(<<Obj(<<KV("kpi", Str("k3"))>>)>>))>>))>>))>>)

\* weights that sum to 1.30004, and a dimension of weight zero
ConfigHeavy ==
  Obj(<<KV("model", Obj(<<
    KV("H", Obj(<<KV("s", Arr(<<Item("h1", 90000), Item("h2", 40004)>>))>>)),
    KV("Z", Obj(<<KV("s", Arr(<<Item("z", 0)>>))>>))>>))>>)

ValidConfigs == {DEFAULT_CONFIG, ConfigColliding, ConfigFine, ConfigHeavy}

\* documents that do not parse, or parse to a value without a usable model
UnloadableFiles ==
  { File(FALSE, FALSE, Null),                       \* file.text() rejects
    File(TRUE, FALSE, Null),                        \* not JSON
    JsonFile(Null),                                 \* null
    JsonFile(Obj(<<>>)),                            \* {}
    JsonFile(Obj(<<KV("meta", Obj(<<>>))>>)),       \* {"meta": {}}
    JsonFile(Obj(<<KV("model", Null)>>)) }          \* {"model": null}

\* documents with a model of the wrong shape
MisshapenFiles ==
  { JsonFile(Obj(<<KV("model", Num(5))>>)),                               \* {"model": 5}
    JsonFile(Obj(<<KV("model", Str("x"))>>)),                             \* {"model": "x"}
    JsonFile(Obj(<<KV("model", Obj(<<KV("D", Obj(<<KV("S", Num(7))>>))>>))>>)) }
                                                                          \* {"model": {"D": {"S": 7}}}

WellShapedFiles == {JsonFile(ConfigColliding), JsonFile(ConfigFine)}

Files == UnloadableFiles \cup MisshapenFiles \cup WellShapedFiles

RatingInputs == {-1, 6}                  \* values handed to handleScore
BandIdxInputs == {1}                     \* the band editors the user types into
BandMinInputs == {-1 * PctDen, 50 * PctDen, 101 * PctDen}
BandLabelInputs == {"Z"}

---------------------------------------------------------------------------
(* 3) APP *)

RECURSIVE itemsOf(_, _)
\* the indicators of a dimension in rendering order (lines 197-201)
itemsOf(subs, i) ==
  IF i > Len(subs) THEN <<>>
  ELSE [j \in 1..Len(subs[i].v.kv) |-> subs[i].v.kv[j].v] \o itemsOf(subs, i + 1)

\* the rating inputs the modelled user operates: <<dim, item>> of the first
\* indicator of each of the first MaxRatedDims dimensions rendered
RatedInputs(cfg) ==
  LET entries == ObjectEntries(Get(cfg, "model")) IN
  { <<entries[i].k, itemsOf(ObjectEntries(entries[i].v), 1)[1]>> :
      i \in { j \in 1..Min2(Len(entries), MaxRatedDims) :
                itemsOf(ObjectEntries(entries[j].v), 1) # <<>> } }

\* lastOp: the handler, its inputs, its outcome; for an upload val is the number
\* of ratings stored when the handler ran
Op(op, dim, key, val, idx, file, outcome) ==
  [op |-> op, dim |-> dim, key |-> key, val |-> val, idx |-> idx,
   file |-> file, outcome |-> outcome]

\* One render of App with the state (cfg, sc, bs): lines 112-118.  When
\* computeWeighted throws, the render throws, no error boundary catches it and
\* React removes the tree; the memoized values of the last render stay.
Render(cfg, sc, bs) ==
  LET agg == useMemo(computeWeighted(Get(cfg, "model"), sc), <<cfg, sc>>,
                     <<config, scores>>,
                     [err |-> FALSE, total |-> total, perDim |-> perDim,
                      perDimDen |-> perDimDen])
      pct == useMemo(totalPctOf(agg.total), agg.total, total, totalPct)
  IN IF agg.err
     THEN /\ mounted' = FALSE
          /\ UNCHANGED <<total, perDim, perDimDen, totalPct, finalGrade>>
     ELSE /\ mounted' = TRUE
          /\ total' = agg.total
          /\ perDim' = agg.perDim
          /\ perDimDen' = agg.perDimDen
          /\ totalPct' = pct
          /\ finalGrade' = useMemo(gradeFromScore(pct, bs), <<pct, bs>>,
                                   <<totalPct, bands>>, finalGrade)

\* { ...s, [key]: v }
setScore(sc, key, v) == (key :> v) @@ sc

\* lines 127-129, called from the range input or a button of indicator
\* (dim, item) with key = makeKey(dim, item): lines 202, 226, 233
handleScore(dim, item, val) ==
  LET key == makeKey(dim, item) IN
  /\ mounted
  /\ scores' = setScore(scores, key, clamp(val, 0, MaxRating))
  /\ Render(config, scores', bands)
  /\ alertMsg' = "" /\ exported' = <<>>
  /\ lastOp' = Op("handleScore", dim, key, val, 0, <<>>, "")
  /\ UNCHANGED <<config, bands, showSettings>>

\* line 155
handleReset ==
  /\ mounted
  /\ scores' = <<>>
  /\ Render(config, scores', bands)
  /\ alertMsg' = "" /\ exported' = <<>>
  /\ lastOp' = Op("handleReset", "", "", 0, 0, <<>>, "")
  /\ UNCHANGED <<config, bands, showSettings>>

\* line 175
onToggleSettings ==
  /\ mounted
  /\ showSettings' = ~showSettings
  /\ Render(config, scores, bands)
  /\ alertMsg' = "" /\ exported' = <<>>
  /\ lastOp' = Op("onToggleSettings", "", "", 0, 0, <<>>, "")
  /\ UNCHANGED <<config, scores, bands>>

\* lines 295-298; the editors exist while showSettings holds (line 285)
onBandLabelChange(idx, text) ==
  /\ mounted /\ showSettings /\ idx \in 1..Len(bands)
  /\ bands' = [bands EXCEPT ![idx].label = text]
  /\ Render(config, scores, bands')
  /\ alertMsg' = "" /\ exported' = <<>>
  /\ lastOp' = Op("onBandLabelChange", "", text, 0, idx, <<>>, "")
  /\ UNCHANGED <<config, scores, showSettings>>

\* lines 307-310
onBandMinChange(idx, val) ==
  /\ mounted /\ showSettings /\ idx \in 1..Len(bands)
  /\ bands' = [bands EXCEPT ![idx].min = clamp(val, 0, MaxPct)]
  /\ Render(config, scores, bands')
  /\ alertMsg' = "" /\ exported' = <<>>
  /\ lastOp' = Op("onBandMinChange", "", "", val, idx, <<>>, "")
  /\ UNCHANGED <<config, scores, showSettings>>

\* lines 145-153: the snapshot handed to the download
handleDownloadScores ==
  /\ mounted
  /\ exported' = <<[scores |-> scores, totalPct |-> totalPct, finalGrade |-> finalGrade]>>
  /\ alertMsg' = ""
  /\ lastOp' = Op("handleDownloadScores", "", "", 0, 0, <<>>, "")
  /\ UNCHANGED <<config, scores, bands, showSettings, total, perDim, perDimDen,
                 totalPct, finalGrade, mounted>>

tryLoadUnchecked(file) ==
  IF ~file.readable THEN [ok |-> FALSE, json |-> Null, msg |-> "read failed"]
  ELSE IF ~file.wellFormed THEN [ok |-> FALSE, json |-> Null, msg |-> "SyntaxError"]
  ELSE [ok |-> TRUE, json |-> file.json, msg |-> ""]

\* the try block, lines 135-137: the config to adopt, or the message of the
\* exception caught at line 140
tryLoad(file) ==
  IF ~file.readable THEN [ok |-> FALSE, json |-> Null, msg |-> "read failed"]
  ELSE IF ~file.wellFormed THEN [ok |-> FALSE, json |-> Null, msg |-> "SyntaxError"]
  ELSE IF Nullish(file.json) THEN [ok |-> FALSE, json |-> Null, msg |-> "TypeError"]
  ELSE IF ~Truthy(Get(file.json, "model"))
       THEN [ok |-> FALSE, json |-> Null, msg |-> "Invalid config: missing 'model'"]
  ELSE [ok |-> TRUE, json |-> file.json, msg |-> ""]

handleUploadKeepScores(picked) ==
  /\ mounted
  /\ exported' = <<>>
  /\ IF picked = <<>>
     THEN /\ alertMsg' = ""
          /\ lastOp' = Op("handleUpload", "", "", Cardinality(DOMAIN scores), 0, picked, "nofile")
          /\ UNCHANGED <<config, scores, bands, showSettings, total, perDim,
                         perDimDen, totalPct, finalGrade, mounted>>
     ELSE IF ~tryLoad(picked[1]).ok
     THEN /\ alertMsg' = "Couldn't load JSON: " \o tryLoad(picked[1]).msg
          /\ lastOp' = Op("handleUpload", "", "", Cardinality(DOMAIN scores), 0, picked, "rejected")
          /\ UNCHANGED <<config, scores, bands, showSettings, total, perDim,
                         perDimDen, totalPct, finalGrade, mounted>>
     ELSE /\ config' = tryLoad(picked[1]).json
          /\ scores' = scores
          /\ Render(config', scores', bands)
          /\ alertMsg' = ""
          /\ lastOp' = Op("handleUpload", "", "", Cardinality(DOMAIN scores), 0, picked, "adopted")
          /\ UNCHANGED <<bands, showSettings>>

\* Lines 131-143.  picked is <<>> when the file dialog was cancelled (line
\* 133), else <<file>>.  The handler awaits file.text() at line 135 and other
\* handlers may run meanwhile; what follows the await reads the file alone and
\* runs as one task, so the handler is one step, taken when that task runs.
\* Uploads overlapping one another are not modelled.
handleUpload(picked) ==
  /\ mounted
  /\ exported' = <<>>
  /\ IF picked = <<>>
     THEN /\ alertMsg' = ""
          /\ lastOp' = Op("handleUpload", "", "", Cardinality(DOMAIN scores), 0, picked, "nofile")
          /\ UNCHANGED <<config, scores, bands, showSettings, total, perDim,
                         perDimDen, totalPct, finalGrade, mounted>>
     ELSE IF ~tryLoad(picked[1]).ok
     THEN /\ alertMsg' = "Couldn't load JSON: " \o tryLoad(picked[1]).msg
          /\ lastOp' = Op("handleUpload", "", "", Cardinality(DOMAIN scores), 0, picked, "rejected")
          /\ UNCHANGED <<config, scores, bands, showSettings, total, perDim,
                         perDimDen, totalPct, finalGrade, mounted>>
     ELSE /\ config' = tryLoad(picked[1]).json
          /\ scores' = <<>>
          /\ Render(config', scores', bands)
          /\ alertMsg' = ""
          /\ lastOp' = Op("handleUpload", "", "", Cardinality(DOMAIN scores), 0, picked, "adopted")
          /\ UNCHANGED <<bands, showSettings>>

---------------------------------------------------------------------------
(* The interactive session *)

InitAgg == computeWeighted(Get(DEFAULT_CONFIG, "model"), <<>>)

AppInit ==
  /\ config = DEFAULT_CONFIG
  /\ scores = <<>>
  /\ bands = DEFAULT_BANDS
  /\ showSettings = FALSE
  /\ total = InitAgg.total
  /\ perDim = InitAgg.perDim
  /\ perDimDen = InitAgg.perDimDen
  /\ totalPct = totalPctOf(InitAgg.total)
  /\ finalGrade = gradeFromScore(totalPctOf(InitAgg.total), DEFAULT_BANDS)
  /\ mounted = TRUE
  /\ alertMsg = ""
  /\ exported = <<>>
  /\ lastOp = Op("mount", "", "", 0, 0, <<>>, "")

NoAgg == [err |-> FALSE, total |-> 0, perDim |-> <<>>, perDimDen |-> <<>>]

CallIdle ==
  /\ pc = "idle"
  /\ callPct = 0 /\ callBands = <<>> /\ retLabel = ""
  /\ callModel = Null /\ callScores = <<>> /\ retAgg = NoAgg

Init == AppInit /\ CallIdle

Next ==
  \/ \E in \in RatedInputs(config) : \E val \in RatingInputs :
       handleScore(in[1], in[2], val) /\ UNCHANGED callVars
  \/ handleReset /\ UNCHANGED callVars
  \/ onToggleSettings /\ UNCHANGED callVars
  \/ \E idx \in BandIdxInputs : \E text \in BandLabelInputs :
       onBandLabelChange(idx, text) /\ UNCHANGED callVars
  \/ \E idx \in BandIdxInputs : \E val \in BandMinInputs :
       onBandMinChange(idx, val) /\ UNCHANGED callVars
  \/ handleDownloadScores /\ UNCHANGED callVars
  \/ \E picked \in {<<>>} \cup {<<f>> : f \in Files} :
       handleUpload(picked) /\ UNCHANGED callVars

Spec == Init /\ [][Next]_vars

---------------------------------------------------------------------------
(* Direct calls of gradeFromScore *)

GradePcts == {0, 50 * PctDen, 8490, 85 * PctDen, 100 * PctDen}
GradeBands == {Band(l, m) : l \in {"A", "B"}, m \in {0, 70 * PctDen, 85 * PctDen}}
GradeBandSeqs ==
  UNION {[1..n -> GradeBands] : n \in 0..MaxBands} \cup {DEFAULT_BANDS}

GradeInit ==
  /\ AppInit
  /\ pc = "call"
  /\ callPct \in GradePcts /\ callBands \in GradeBandSeqs /\ retLabel = ""
  /\ callModel = Null /\ callScores = <<>> /\ retAgg = NoAgg

callGradeFromScore ==
  /\ pc = "call"
  /\ retLabel' = gradeFromScore(callPct, callBands)
  /\ pc' = "done"
  /\ UNCHANGED <<appVars, callPct, callBands, callModel, callScores, retAgg>>

SpecGrade == GradeInit /\ [][callGradeFromScore]_vars

---------------------------------------------------------------------------
(* Direct calls of computeWeighted *)

RECURSIVE keysOfItems(_, _, _)
keysOfItems(dim, items, i) ==
  IF i > Len(items) THEN {}
  ELSE {makeKey(dim, items[i])} \cup keysOfItems(dim, items, i + 1)

\* the keys of the indicators of a model of dimensions, subcategories and
\* sequences of indicators
Keys(model) ==
  UNION { keysOfItems(e.k, itemsOf(ObjectEntries(e.v), 1), 1) :
            e \in {ObjectEntries(model)[i] : i \in 1..Len(ObjectEntries(model))} }

AggRatings == {-1, 3, 5, 6}

\* every indicator at one rating, and the ratings of at most MaxScored of them
AggScores(model) ==
  {[k \in Keys(model) |-> v] : v \in AggRatings}
    \cup UNION { [D -> AggRatings] :
                   D \in {E \in SUBSET Keys(model) : Cardinality(E) <= MaxScored} }

AggInit ==
  /\ AppInit
  /\ pc = "call"
  /\ callPct = 0 /\ callBands = <<>> /\ retLabel = ""
  /\ callModel \in {Get(c, "model") : c \in ValidConfigs}
  /\ callScores \in AggScores(callModel)
  /\ retAgg = NoAgg

callComputeWeighted ==
  /\ pc = "call"
  /\ retAgg' = computeWeighted(callModel, callScores)
  /\ pc' = "done"
  /\ UNCHANGED <<appVars, callPct, callBands, retLabel, callModel, callScores>>

SpecAgg == AggInit /\ [][callComputeWeighted]_vars


---------------------------------------------------------------------------
(* Properties *)

UploadOf(op) == op.op = "handleUpload" /\ op.file # <<>>

\* the document does not parse, or parses to a value without a model field
FailsToParseOrLacksModel(f) ==
  f.readable /\ (~f.wellFormed \/ Get(f.json, "model") = Undefined)

\* C1: an upload of a document that fails to parse or lacks `model` leaves the
\* config and the ratings (and what is displayed) as they were and raises an
\* alert, from every reachable state.
C1_RejectedUploadKeepsState ==
  [][ (UploadOf(lastOp') /\ FailsToParseOrLacksModel(lastOp'.file[1]))
        => /\ config' = config /\ scores' = scores /\ bands' = bands
           /\ total' = total /\ totalPct' = totalPct /\ finalGrade' = finalGrade
           /\ mounted' = mounted
           /\ alertMsg' # "" ]_vars

\* C1 witness: such a document was rejected with an alert while an uploaded
\* config and ratings were in place.
C1_Witness ==
  /\ UploadOf(lastOp) /\ FailsToParseOrLacksModel(lastOp.file[1])
  /\ ~lastOp.file[1].wellFormed
  /\ alertMsg # ""
  /\ config = ConfigFine /\ scores # <<>>

\* a model that is a mapping dimension -> subcategory -> sequence
WellShaped(model) ==
  /\ model.t = "obj"
  /\ \A i \in 1..Len(model.kv) :
       /\ model.kv[i].v.t = "obj"
       /\ \A j \in 1..Len(model.kv[i].v.kv) : model.kv[i].v.kv[j].v.t = "arr"

HasMisshapenModel(f) ==
  /\ f.readable /\ f.wellFormed
  /\ Get(f.json, "model") # Undefined
  /\ ~WellShaped(Get(f.json, "model"))

\* C2: every upload whose `model` is present but is no mapping dimension ->
\* subcategory -> sequence is reported as a failure and leaves the config as
\* it was.
C2_MisshapenUploadRejected ==
  [][ (UploadOf(lastOp') /\ HasMisshapenModel(lastOp'.file[1]))
        => (alertMsg' # "" /\ config' = config /\ scores' = scores) ]_vars

\* C3: right after an upload that adopts a config the ratings map is empty,
\* every indicator reports rating 0 and, while the page is rendered, total and
\* totalPct are 0.
C3_AdoptionEmptiesRatings ==
  (UploadOf(lastOp) /\ tryLoad(lastOp.file[1]).ok)
    => /\ config = lastOp.file[1].json
       /\ scores = <<>>
       /\ mounted => /\ \A k \in Keys(Get(config, "model")) : ScoreAt(scores, k) = 0
                     /\ total = 0 /\ totalPct = 0

\* C3 witness: a config was adopted while ratings were stored, and rendered.
C3_Witness ==
  /\ UploadOf(lastOp) /\ tryLoad(lastOp.file[1]).ok
  /\ lastOp.val > 0
  /\ mounted /\ config = ConfigColliding /\ scores = <<>>

\* C4: a rating change made through an indicator of dimension D leaves the
\* percentage perDim[E] / perDimDen[E] of every other dimension E as it was.
C4_OtherDimensionsUnchanged ==
  [][ lastOp'.op = "handleScore"
        => \A e \in DOMAIN perDim \ {lastOp'.dim} :
             perDim'[e] = perDim[e] /\ perDimDen'[e] = perDimDen[e] ]_vars

FirstMatch(pct, bs, i) ==
  /\ i \in 1..Len(bs)
  /\ bs[i].min <= pct
  /\ \A j \in 1..(i - 1) : bs[j].min > pct

\* C5: gradeFromScore returns the label of the first band, in the order given,
\* whose min <= pct, also when a later band of higher min matches; with the
\* bands A 85, B 70, C 55, D 40, E 0 it returns A for 85.0 and 100, B for 84.9
\* and E for 0.
C5_OrderedFirstMatch ==
  pc = "done" =>
    /\ \A i \in 1..Len(callBands) :
         FirstMatch(callPct, callBands, i) => retLabel = callBands[i].label
    /\ callBands = DEFAULT_BANDS =>
         /\ callPct \in {85 * PctDen, 100 * PctDen} => retLabel = "A"
         /\ callPct = 8490 => retLabel = "B"
         /\ callPct = 0 => retLabel = "E"

\* C5 witness: the first matching band was returned although a later band of
\* another label and a higher min matches too.
C5_Witness ==
  /\ pc = "done"
  /\ \E i, j \in 1..Len(callBands) :
       /\ i < j /\ FirstMatch(callPct, callBands, i)
       /\ callBands[j].min > callBands[i].min /\ callBands[j].min <= callPct
       /\ callBands[j].label # callBands[i].label
       /\ retLabel = callBands[i].label

\* the sum of the weights of a model, in weight units
RECURSIVE sumWeights(_, _)
sumWeights(items, i) ==
  IF i > Len(items) THEN 0 ELSE WeightOf(items[i]) + sumWeights(items, i + 1)

RECURSIVE sumDimWeights(_, _)
sumDimWeights(entries, i) ==
  IF i > Len(entries) THEN 0
  ELSE sumWeights(itemsOf(ObjectEntries(entries[i].v), 1), 1)
         + sumDimWeights(entries, i + 1)

SumOfWeights(model) == sumDimWeights(ObjectEntries(model), 1)

AllAtFive(model, sc) == DOMAIN sc = Keys(model) /\ \A k \in DOMAIN sc : sc[k] = 5

\* weight units in one hundredth of a percent
WeightPerPct == WeightDen \div (100 * PctDen)

ClampedScores(sc) ==
  [k \in DOMAIN sc |-> IF sc[k] < 0 THEN 0 ELSE IF sc[k] > 5 THEN 5 ELSE sc[k]]

\* C7: computeWeighted raises no error for ratings out of range and returns
\* the total, perDim and perDimDen it returns with every rating below 0
\* replaced by 0 and every rating above 5 replaced by 5.
C7_OutOfRangeRatingsClamped ==
  pc = "done" =>
    /\ ~retAgg.err
    /\ retAgg = computeWeighted(callModel, ClampedScores(callScores))

\* C7 witness: a call with a rating of -1 and a rating of 6 on weighted
\* indicators.
C7_Witness ==
  /\ pc = "done"
  /\ \E k \in DOMAIN callScores : callScores[k] = -1
  /\ \E k \in DOMAIN callScores : callScores[k] = 6
  /\ retAgg.total > 0
  /\ retAgg # computeWeighted(callModel, <<>>)

\* C8: the totalPct and finalGrade of an exported snapshot are those of a
\* fresh computeWeighted on the current config and ratings and a fresh
\* gradeFromScore on the current bands.
C8_ExportMatchesFreshCall ==
  lastOp.op = "handleDownloadScores" =>
    /\ Len(exported) = 1
    /\ exported[1].scores = scores
    /\ exported[1].totalPct
         = totalPctOf(computeWeighted(Get(config, "model"), scores).total)
    /\ exported[1].finalGrade
         = gradeFromScore(
             totalPctOf(computeWeighted(Get(config, "model"), scores).total), bands)

\* C8 witness: an export after an upload, rating changes and a band edit.
C8_Witness ==
  /\ lastOp.op = "handleDownloadScores"
  /\ config = ConfigFine /\ scores # <<>> /\ bands # DEFAULT_BANDS
  /\ exported[1].totalPct > 0
  /\ exported[1].finalGrade # "E"

\* C9: when no band has min <= pct, gradeFromScore returns the label of the
\* last band; for an empty band sequence it returns "N/A".
C9_Fallback ==
  pc = "done" =>
    /\ (Len(callBands) > 0 /\ \A i \in 1..Len(callBands) : callBands[i].min > callPct)
         => retLabel = callBands[Len(callBands)].label
    /\ Len(callBands) = 0 => retLabel = "N/A"

\* C9 witness: no band matched and the last band's label, which is not the
\* first band's, was returned.
C9_Witness ==
  /\ pc = "done"
  /\ Len(callBands) > 1
  /\ \A i \in 1..Len(callBands) : callBands[i].min > callPct
  /\ callBands[1].label # callBands[Len(callBands)].label
  /\ retLabel = callBands[Len(callBands)].label

\* C10: every stored rating lies in [0, 5] and every band's min in [0, 100],
\* whatever values the inputs supplied.
C10_StoredInputsInRange ==
  /\ \A k \in DOMAIN scores : 0 <= scores[k] /\ scores[k] <= 5
  /\ \A i \in 1..Len(bands) : 0 <= bands[i].min /\ bands[i].min <= 100 * PctDen

\* C10 witness: a rating input of more than 5 was stored as 5 while a band
\* holds the min 100 that a threshold input of 101 left.
C10_Witness ==
  /\ lastOp.op = "handleScore" /\ lastOp.val > 5
  /\ scores[lastOp.key] = 5
  /\ \E i \in 1..Len(bands) : bands[i].min = 100 * PctDen

=============================================================================
